---- MODULE Spec2Model ----
(***************************************************************************)
(* State-machine model of the project/task tracker in src/script.js:       *)
(* StorageManager, Project, Task, ProjectManager, TaskManager,             *)
(* CalendarManager.getMonthData and UIController.importData.               *)
(***************************************************************************)
EXTENDS Integers, Sequences, FiniteSets, TLC

VARIABLES
    projects,   \* ProjectManager.projects: the in-memory collection
    storage,    \* localStorage item 'projects' (a string, or no item)
    now,        \* the wall clock, Date.now() in milliseconds
    last,       \* the last call made: its name, its arguments, the collection
                \* it was made on and its return value
    timeouts,       \* the timeouts of autoSave pending in the browser
    autoSaveTimer,  \* the id autoSave's last setTimeout returned
    currentDate,    \* CalendarManager.currentDate
    draggedTask,    \* KanbanManager.draggedTask
    dropListeners,  \* the 'drop' listeners registered on the document
    currentPage,    \* UIController.currentPage
    content,        \* the page whose markup the content element holds
    pendingRenders  \* the pages of renderPage's timeouts pending, oldest first

\* The state of the page outside the repository.
ui ==
    <<timeouts, autoSaveTimer, currentDate, draggedTask, dropListeners,
      currentPage, content, pendingRenders>>

vars == <<projects, storage, now, last, ui>>

----------------------------------------------------------------------------
(* Bounds of the model *)

MaxClock == 2
MaxProjects == 2
MaxTasks == 2
MaxProgressTasks == 40
MaxSaves == 3
MaxTime == 2501
MaxListeners == 3
MaxRenders == 2
MaxYear == 2028
MaxLargeTasks == 201

----------------------------------------------------------------------------
(* JavaScript values *)

\* The value undefined.
Undefined == [absent |-> "undefined"]

\* The value null.
Null == [absent |-> "null"]

\* A Date object holding time t, and the string JSON.stringify turns it into.
DateObj(t) == <<"Date", t>>
IsoString(t) == <<"string", t>>

\* Date.prototype.toJSON as JSON.stringify applies it to a field value: a Date
\* becomes its ISO string, a string stays what it is.
DateToJSON(v) == IF v[1] = "Date" THEN IsoString(v[2]) ELSE v

\* Object.assign(target, data): every own field of data overwrites or adds.
ObjectAssign(target, data) ==
    [f \in (DOMAIN target) \cup (DOMAIN data) |->
        IF f \in DOMAIN data THEN data[f] ELSE target[f]]

\* Array.prototype.find on an array of entities by id: the index of the first
\* match, 0 when nothing matches (find returns undefined).
FindById(arr, id) ==
    IF \E i \in 1..Len(arr) : arr[i].id = id
    THEN CHOOSE i \in 1..Len(arr) :
            /\ arr[i].id = id
            /\ \A j \in 1..(i - 1) : arr[j].id # id
    ELSE 0

\* The filter with its comparison inverted (x.id === id).
Mut_FilterOutId(arr, id) == SelectSeq(arr, LAMBDA x : x.id = id)

\* Array.prototype.filter(x => x.id !== id).
FilterOutId(arr, id) == SelectSeq(arr, LAMBDA x : x.id # id)

\* Date.now().toString()
NewId == ToString(now)

----------------------------------------------------------------------------
(* Date, as CalendarManager uses it.  A date is the number of its local day,
   counted from 1 January 1970 (day 0); the time of day is always local
   midnight and plays no part. *)

\* DayFromYear(y): the day number of 1 January of year y.
DayFromYear(y) ==
    365 * (y - 1970) + ((y - 1969) \div 4) - ((y - 1901) \div 100)
        + ((y - 1601) \div 400)

\* 1 in a leap year, 0 otherwise.
InLeapYear(y) ==
    IF y % 4 = 0 /\ (y % 100 # 0 \/ y % 400 = 0) THEN 1 ELSE 0

\* YearFromTime: the year a day lies in.
YearFromDay(day) ==
    CHOOSE y \in IF day >= 0
                 THEN (1969 + (day \div 366))..(1971 + (day \div 365))
                 ELSE (1969 + (day \div 365))..(1971 + (day \div 366)) :
        DayFromYear(y) <= day /\ day < DayFromYear(y + 1)

\* The day within its year on which month m (0..12) starts.
MonthStart(m, leap) ==
    <<0, 31, 59, 90, 120, 151, 181, 212, 243, 273, 304, 334, 365>>[m + 1]
        + (IF m >= 2 THEN leap ELSE 0)

\* MonthFromTime
MonthFromDay(day) ==
    LET y == YearFromDay(day)
    IN CHOOSE m \in 0..11 :
           /\ MonthStart(m, InLeapYear(y)) <= day - DayFromYear(y)
           /\ day - DayFromYear(y) < MonthStart(m + 1, InLeapYear(y))

\* Date.prototype.getDate(): DateFromTime
GetDate(day) ==
    LET y == YearFromDay(day)
    IN day - DayFromYear(y) - MonthStart(MonthFromDay(day), InLeapYear(y)) + 1

\* Date.prototype.getDay(): WeekDay, 0 for Sunday
GetDay(day) == (day + 4) % 7

\* MakeDay(year, month, date): a month outside 0..11 carries into the year, a
\* date outside the month into the neighbouring months.
MakeDay(year, month, date) ==
    LET ym == year + (month \div 12)
        mn == month % 12
    IN DayFromYear(ym) + MonthStart(mn, InLeapYear(ym)) + date - 1

\* The Date constructor reads a year in 0..99 as 1900 + year.
MakeFullYear(year) == IF year >= 0 /\ year <= 99 THEN 1900 + year ELSE year

\* new Date(year, month, date)
NewDate(year, month, date) == MakeDay(MakeFullYear(year), month, date)

----------------------------------------------------------------------------
(* Entities *)

\* new Project(id, name, description, status, priority, deadline)
NewProject(id, name, description, status, priority, deadline) ==
    [id |-> id, name |-> name, description |-> description, status |-> status,
     priority |-> priority, deadline |-> deadline,
     createdAt |-> DateObj(now), tasks |-> <<>>]

\* new Task(id, projectId, name, description, status, priority, dueDate, assignee)
NewTask(id, projectId, name, description, status, priority, dueDate, assignee) ==
    [id |-> id, projectId |-> projectId, name |-> name,
     description |-> description, status |-> status, priority |-> priority,
     dueDate |-> dueDate, assignee |-> assignee,
     completed |-> (status = "Done"), createdAt |-> DateObj(now)]

----------------------------------------------------------------------------
(* StorageManager over the key 'projects' *)

\* localStorage.getItem returns null: there is no item.
NoItem == [item |-> "none"]

\* The item is the JSON text of value v.
JsonText(v) == [item |-> "json", value |-> v]

\* The item is the string "undefined": setItem(key, undefined) stores the
\* argument converted to a string, and JSON.stringify(undefined) is undefined.
UndefinedText == [item |-> "undefined"]

\* JSON values that are not project arrays.
JsonNull == [json |-> "null"]
JsonNumber == [json |-> "number"]
JsonArray(a) == [json |-> "array", elems |-> a]

\* JSON.stringify of one task: createdAt is written as its ISO string.
StringifyTask(t) == [t EXCEPT !.createdAt = DateToJSON(t.createdAt)]

\* JSON.stringify of one project with its nested tasks.
StringifyProject(p) ==
    [p EXCEPT !.createdAt = DateToJSON(p.createdAt),
              !.tasks = [i \in 1..Len(p.tasks) |-> StringifyTask(p.tasks[i])]]

\* StorageManager.save('projects', <array of projects>)
StorageSave(arr) ==
    JsonText(JsonArray([i \in 1..Len(arr) |-> StringifyProject(arr[i])]))

\* StorageManager.load('projects') followed by ProjectManager.loadProjects'
\* data ? data.map(p => Object.assign(new Project(), p)) : [].
\* JSON.parse throws on the text "undefined"; a number has no map method.
BlankProject ==
    [id |-> Undefined, name |-> Undefined, description |-> Undefined,
     status |-> Undefined, priority |-> Undefined, deadline |-> Undefined,
     createdAt |-> DateObj(now), tasks |-> <<>>]

\* data.map(p => new Project(p.id, p.name, p.description, p.status,
\* p.priority, p.deadline)): createdAt and tasks are those of a new Project.
Mut_LoadProjects(item) ==
    CASE item.item = "none" -> [threw |-> FALSE, value |-> <<>>]
      [] item.item = "undefined" -> [threw |-> TRUE]
      [] item.value.json = "null" -> [threw |-> FALSE, value |-> <<>>]
      [] item.value.json = "array" ->
            [threw |-> FALSE,
             value |-> [i \in 1..Len(item.value.elems) |->
                          [item.value.elems[i] EXCEPT
                              !.createdAt = DateObj(now), !.tasks = <<>>]]]
      [] OTHER -> [threw |-> TRUE]

LoadProjects(item) ==
    CASE item.item = "none" -> [threw |-> FALSE, value |-> <<>>]
      [] item.item = "undefined" -> [threw |-> TRUE]
      [] item.value.json = "null" -> [threw |-> FALSE, value |-> <<>>]
      [] item.value.json = "array" ->
            [threw |-> FALSE,
             value |-> [i \in 1..Len(item.value.elems) |->
                          ObjectAssign(BlankProject, item.value.elems[i])]]
      [] OTHER -> [threw |-> TRUE]

----------------------------------------------------------------------------
(* Inputs of the calls *)

ProjectNames == {"Launch"}
Descriptions == {"text"}
ProjectStatuses == {"Active", "On Hold"}
Priorities == {"High"}
Deadlines == {""}
TaskNames == {"Design"}
TaskStatuses == {"To Do", "In Progress", "Done"}
Assignees == {""}

\* A due date string n stands for the date whose time value is n on the
\* model's clock.
DueDates == {"1"}
ParseDate(s) == CHOOSE t \in 0..(MaxClock + 1) : ToString(t) = s

\* Ids passed to the calls: the ids in use in collection ps, and "0", which no
\* entity ever has (the clock starts at 1).
ProjectIds(ps) == {"0"} \cup {ps[i].id : i \in 1..Len(ps)}

TaskIds(ps) ==
    {"0"} \cup UNION {{ps[i].tasks[k].id : k \in 1..Len(ps[i].tasks)} :
                        i \in 1..Len(ps)}

Restrict(r, S) == [f \in S |-> r[f]]

\* The partial-field payloads of updateProject: every subset of the fields
\* that take several values here, and handleProjectSubmit's full payload.
ProjectPayloads ==
    {Restrict(r, S) :
        r \in [name : ProjectNames, description : Descriptions,
               status : ProjectStatuses, priority : Priorities,
               deadline : Deadlines],
        S \in (SUBSET {"name", "status"}) \cup
               {{"name", "description", "status", "priority", "deadline"}}}

\* The partial-field payloads of updateTask: the empty payload, one field
\* alone, toggleTaskComplete's {status, completed} and handleTaskSubmit's full
\* payload.
TaskPayloads ==
    {Restrict(r, S) :
        r \in [name : TaskNames, description : Descriptions,
               status : TaskStatuses, priority : Priorities,
               dueDate : DueDates, assignee : Assignees, completed : BOOLEAN],
        S \in {{}, {"name"}, {"status"}, {"completed"}, {"status", "completed"},
                {"name", "description", "status", "priority", "dueDate",
                 "assignee"}}}

----------------------------------------------------------------------------
(* ProjectManager *)

\* saveProjects(): the item written for the collection ps.
SaveProjects(ps) == StorageSave(ps)

\* The collection after createProject pushed project p.
PushProject(ps, p) == Append(ps, p)

\* Object.assign applied to every project instead of the one found.
Mut_AssignProject(ps, i, data) ==
    [j \in 1..Len(ps) |-> ObjectAssign(ps[j], data)]

\* The collection after updateProject's Object.assign on the project found at i.
AssignProject(ps, i, data) == [ps EXCEPT ![i] = ObjectAssign(@, data)]

\* The first project is removed, whatever its id.
Mut_RemoveProject(ps, id) == IF ps = <<>> THEN ps ELSE Tail(ps)

\* The collection after deleteProject's filter.
RemoveProject(ps, id) == FilterOutId(ps, id)

\* getProject(id): the project, or undefined.
GetProjectOf(ps, id) ==
    IF FindById(ps, id) = 0 THEN Undefined ELSE ps[FindById(ps, id)]

\* The number of projects of ps whose status is exactly the given one.
CountStatus(ps, status) == Len(SelectSeq(ps, LAMBDA p : p.status = status))

\* onHold counts every project that is neither 'Active' nor 'Completed'.
Mut_ProjectStats(ps) ==
    [total |-> Len(ps),
     active |-> CountStatus(ps, "Active"),
     completed |-> CountStatus(ps, "Completed"),
     onHold |-> Len(ps) - CountStatus(ps, "Active")
                    - CountStatus(ps, "Completed")]

\* ProjectManager.getStats()
ProjectStats(ps) ==
    [total |-> Len(ps),
     active |-> CountStatus(ps, "Active"),
     completed |-> CountStatus(ps, "Completed"),
     onHold |-> CountStatus(ps, "On Hold")]

GetProjectStats ==
    /\ last' = [op |-> "getStats", before |-> projects,
                ret |-> ProjectStats(projects)]
    /\ UNCHANGED <<projects, storage, now, ui>>

CreateProject(name, description, status, priority, deadline) ==
    /\ Len(projects) < MaxProjects
    /\ LET project == NewProject(NewId, name, description, status, priority,
                                 deadline)
       IN /\ projects' = PushProject(projects, project)
          /\ storage' = SaveProjects(projects')
          /\ last' = [op |-> "createProject", before |-> projects,
                      ret |-> project]
    /\ UNCHANGED <<now, ui>>

UpdateProject(id, data) ==
    /\ LET i == FindById(projects, id)
       IN IF i # 0
          THEN /\ projects' = AssignProject(projects, i, data)
               /\ storage' = SaveProjects(projects')
               /\ last' = [op |-> "updateProject", id |-> id, data |-> data,
                           before |-> projects, ret |-> projects'[i]]
          ELSE /\ UNCHANGED <<projects, storage>>
               /\ last' = [op |-> "updateProject", id |-> id, data |-> data,
                           before |-> projects, ret |-> Undefined]
    /\ UNCHANGED <<now, ui>>

DeleteProject(id) ==
    /\ projects' = RemoveProject(projects, id)
    /\ storage' = SaveProjects(projects')
    /\ last' = [op |-> "deleteProject", id |-> id, before |-> projects,
                ret |-> Undefined]
    /\ UNCHANGED <<now, ui>>

GetProject(id) ==
    /\ last' = [op |-> "getProject", id |-> id, before |-> projects,
                ret |-> GetProjectOf(projects, id)]
    /\ UNCHANGED <<projects, storage, now, ui>>

----------------------------------------------------------------------------
(* TaskManager *)

\* The number of tasks in collection ps, all projects together.
RECURSIVE TaskCount(_)
TaskCount(ps) ==
    IF ps = <<>> THEN 0 ELSE Len(Head(ps).tasks) + TaskCount(Tail(ps))

\* The task is put in front of the list (unshift) instead of pushed.
Mut_PushTask(ps, i, t) == [ps EXCEPT ![i].tasks = <<t>> \o @]

\* The collection after createTask pushed task t on the project found at i.
PushTask(ps, i, t) == [ps EXCEPT ![i].tasks = Append(@, t)]

\* updateTask on the task found: Object.assign(task, data), then
\* task.completed = data.status === 'Done' (data.status is undefined when the
\* payload has no status).
\* Object.assign alone, completed not recomputed.
Mut_AssignTask(task, data) == ObjectAssign(task, data)

\* updateTask's Object.assign(task, data) and recomputation of completed.
AssignTask(task, data) ==
    [ObjectAssign(task, data) EXCEPT
        !.completed = ("status" \in DOMAIN data) /\ data.status = "Done"]

\* The collection after deleteTask's filter on the project found at i.
RemoveTask(ps, i, taskId) == [ps EXCEPT ![i].tasks = FilterOutId(@, taskId)]

\* getTask(projectId, taskId): null without the project, else what find gives.
GetTaskOf(ps, projectId, taskId) ==
    LET i == FindById(ps, projectId)
    IN IF i = 0 THEN Null
       ELSE IF FindById(ps[i].tasks, taskId) = 0 THEN Undefined
       ELSE ps[i].tasks[FindById(ps[i].tasks, taskId)]

\* The task is pushed on the last project when getProject finds none.
Mut_AttachTask(ps, projectId, task) ==
    IF ps = <<>> THEN ps
    ELSE PushTask(ps, IF FindById(ps, projectId) # 0
                      THEN FindById(ps, projectId) ELSE Len(ps), task)

\* The collection after createTask: the task is pushed on the project that
\* getProject finds, if any.
AttachTask(ps, projectId, task) ==
    LET i == FindById(ps, projectId)
    IN IF i # 0 THEN PushTask(ps, i, task) ELSE ps

CreateTask(projectId, name, description, status, priority, dueDate, assignee) ==
    /\ LET task == NewTask(NewId, projectId, name, description, status,
                           priority, dueDate, assignee)
           found == GetProjectOf(projects, projectId) # Undefined
       IN /\ found => TaskCount(projects) < MaxTasks
          /\ projects' = AttachTask(projects, projectId, task)
          /\ storage' = IF found THEN SaveProjects(projects') ELSE storage
          /\ last' = [op |-> "createTask", id |-> projectId,
                      before |-> projects, stored |-> storage, ret |-> task]
    /\ UNCHANGED <<now, ui>>

UpdateTask(projectId, taskId, data) ==
    /\ LET i == FindById(projects, projectId)
           k == IF i = 0 THEN 0 ELSE FindById(projects[i].tasks, taskId)
       IN IF k # 0
          THEN /\ projects' =
                    [projects EXCEPT ![i].tasks[k] = AssignTask(@, data)]
               /\ storage' = SaveProjects(projects')
               /\ last' = [op |-> "updateTask", id |-> projectId,
                           taskId |-> taskId, before |-> projects,
                           ret |-> projects'[i].tasks[k]]
          ELSE /\ UNCHANGED <<projects, storage>>
               /\ last' = [op |-> "updateTask", id |-> projectId,
                           taskId |-> taskId, before |-> projects,
                           ret |-> Null]
    /\ UNCHANGED <<now, ui>>

DeleteTask(projectId, taskId) ==
    /\ LET i == FindById(projects, projectId)
       IN IF i # 0
          THEN /\ projects' = RemoveTask(projects, i, taskId)
               /\ storage' = SaveProjects(projects')
          ELSE UNCHANGED <<projects, storage>>
    /\ last' = [op |-> "deleteTask", id |-> projectId, taskId |-> taskId,
                before |-> projects, ret |-> Undefined]
    /\ UNCHANGED <<now, ui>>

GetTask(projectId, taskId) ==
    /\ last' = [op |-> "getTask", id |-> projectId, taskId |-> taskId,
                before |-> projects,
                ret |-> GetTaskOf(projects, projectId, taskId)]
    /\ UNCHANGED <<projects, storage, now, ui>>

----------------------------------------------------------------------------
(* TaskManager's views over all projects *)

\* The annotation takes the task's own name (t.name) for the project's.
Mut_AnnotateTasks(p) ==
    [k \in 1..Len(p.tasks) |->
        ObjectAssign(p.tasks[k], [projectName |-> p.tasks[k].name])]

\* p.tasks.map(t => ({ ...t, projectName: p.name }))
AnnotateTasks(p) ==
    [k \in 1..Len(p.tasks) |->
        ObjectAssign(p.tasks[k], [projectName |-> p.name])]

\* getAllTasks(): flatMap over the projects.
RECURSIVE GetAllTasks(_)
GetAllTasks(ps) ==
    IF ps = <<>> THEN <<>>
    ELSE AnnotateTasks(Head(ps)) \o GetAllTasks(Tail(ps))

\* The status is compared without regard to case.
Mut_GetTasksByStatus(ps, status) ==
    SelectSeq(GetAllTasks(ps),
              LAMBDA t : t.status = status \/
                         (status = "Done" /\ t.status = "done"))

\* getTasksByStatus(status)
GetTasksByStatus(ps, status) ==
    SelectSeq(GetAllTasks(ps), LAMBDA t : t.status = status)

\* getOverdueTasks(): dueDate set, not completed, new Date(dueDate) < new Date().
GetOverdueTasks(ps) ==
    SelectSeq(GetAllTasks(ps),
              LAMBDA t : IF t.dueDate = "" \/ t.completed THEN FALSE
                         ELSE ParseDate(t.dueDate) < now)

\* getPendingTasks()
GetPendingTasks(ps) == SelectSeq(GetAllTasks(ps), LAMBDA t : ~t.completed)

\* TaskManager.getStats()
TaskStats(ps) ==
    LET allTasks == GetAllTasks(ps)
    IN [pending |-> Len(SelectSeq(allTasks, LAMBDA t : ~t.completed)),
        overdue |-> Len(GetOverdueTasks(ps)),
        completed |-> Len(SelectSeq(allTasks, LAMBDA t : t.completed)),
        toDo |-> Len(SelectSeq(allTasks, LAMBDA t : t.status = "To Do")),
        inProgress |->
            Len(SelectSeq(allTasks, LAMBDA t : t.status = "In Progress")),
        total |-> Len(allTasks)]

\* taskManager.getAllTasks(), as the task list and the calendar call it.
GetAllTasksCall ==
    /\ last' = [op |-> "getAllTasks", before |-> projects, stored |-> storage,
                ret |-> GetAllTasks(projects)]
    /\ UNCHANGED <<projects, storage, now, ui>>

\* renderKanban: the three columns.
RenderKanban ==
    /\ last' = [op |-> "renderKanban", before |-> projects,
                todoTasks |-> GetTasksByStatus(projects, "To Do"),
                inProgressTasks |-> GetTasksByStatus(projects, "In Progress"),
                doneTasks |-> GetTasksByStatus(projects, "Done")]
    /\ UNCHANGED <<projects, storage, now, ui>>

----------------------------------------------------------------------------
(* The environment: time passes; the page is closed and opened again *)

Tick ==
    /\ now < MaxClock
    /\ now' = now + 1
    /\ UNCHANGED <<projects, storage, last, ui>>

\* new ProjectManager() on a fresh page load: this.projects = loadProjects().
Restart ==
    /\ ~LoadProjects(storage).threw
    /\ projects' = LoadProjects(storage).value
    /\ last' = [op |-> "loadProjects", ret |-> Undefined]
    /\ UNCHANGED <<storage, now, ui>>

----------------------------------------------------------------------------
(* The repository driven by any sequence of calls *)

\* let autoSaveTimer: undefined, which is the id of no timeout (setTimeout
\* returns positive ids).
NoTimer == 0

\* The renders of the Kanban page pending in q.
KanbanRenders(q) == Cardinality({i \in 1..Len(q) : q[i] = "kanban"})

\* The timeouts pending after renderPage(page). A timeout of another page
\* than the Kanban board only writes that page's markup, so that two of the
\* same page in a row are kept as one.
RenderPage(q, page) ==
    IF page # "kanban" /\ q # <<>> /\ q[Len(q)] = page THEN q
    ELSE Append(q, page)

\* The bounds on the timeouts pending and on the renders of the Kanban page,
\* each of which registers a listener.
WithinBounds(q) ==
    /\ Len(q) <= MaxRenders
    /\ KanbanRenders(q) > KanbanRenders(pendingRenders) =>
            KanbanRenders(q) + dropListeners <= MaxListeners

CanRender(page) == WithinBounds(RenderPage(pendingRenders, page))

\* The day the page is opened on: new Date() in CalendarManager's constructor.
Today == NewDate(2026, 10, 1)

\* The page right after the script ran: no timer, no drag, no listener, and
\* the render of the dashboard that init() asked for pending.
InitUI ==
    /\ timeouts = {}
    /\ autoSaveTimer = NoTimer
    /\ currentDate = Today
    /\ draggedTask = Null
    /\ dropListeners = 0
    /\ currentPage = "dashboard"
    /\ content = ""
    /\ pendingRenders = <<"dashboard">>

Init ==
    /\ projects = <<>>
    /\ storage = NoItem
    /\ now = 1
    /\ last = [op |-> "init", ret |-> Undefined]
    /\ InitUI

Next ==
    \/ \E name \in ProjectNames, description \in Descriptions,
          status \in ProjectStatuses, priority \in Priorities,
          deadline \in Deadlines :
            CreateProject(name, description, status, priority, deadline)
    \/ \E id \in ProjectIds(projects), data \in ProjectPayloads : UpdateProject(id, data)
    \/ \E id \in ProjectIds(projects) : DeleteProject(id)
    \/ \E id \in ProjectIds(projects) : GetProject(id)
    \/ \E projectId \in ProjectIds(projects), name \in TaskNames, description \in Descriptions,
          status \in TaskStatuses, priority \in Priorities,
          dueDate \in DueDates, assignee \in Assignees :
            CreateTask(projectId, name, description, status, priority,
                       dueDate, assignee)
    \/ \E projectId \in ProjectIds(projects), taskId \in TaskIds(projects), data \in TaskPayloads :
            UpdateTask(projectId, taskId, data)
    \/ \E projectId \in ProjectIds(projects), taskId \in TaskIds(projects) : DeleteTask(projectId, taskId)
    \/ \E projectId \in ProjectIds(projects), taskId \in TaskIds(projects) : GetTask(projectId, taskId)
    \/ Tick

Spec == Init /\ [][Next]_vars

----------------------------------------------------------------------------
(* The project collection alone, over every status a project can be given:
   the three of the project form and one that is none of them *)

AllProjectStatuses == {"Active", "Completed", "On Hold", "Archived"}

NextProjects ==
    \/ \E name \in ProjectNames, description \in Descriptions,
          status \in AllProjectStatuses, priority \in Priorities,
          deadline \in Deadlines :
            CreateProject(name, description, status, priority, deadline)
    \/ \E id \in ProjectIds(projects), status \in AllProjectStatuses :
            UpdateProject(id, [status |-> status])
    \/ \E id \in ProjectIds(projects) : DeleteProject(id)
    \/ GetProjectStats
    \/ Tick

SpecProjects == Init /\ [][NextProjects]_vars

----------------------------------------------------------------------------
(* The repository across page loads: the collection is loaded again from the
   stored item, and saveProjects() writes it back *)

\* The auto-save timer firing: projectManager.saveProjects().
AutoSave ==
    /\ storage' = SaveProjects(projects)
    /\ last' = [op |-> "saveProjects", after |-> last.op, before |-> projects,
                stored |-> storage]
    /\ UNCHANGED <<projects, now, ui>>

NextReload ==
    \/ \E name \in ProjectNames, description \in Descriptions,
          status \in ProjectStatuses, priority \in Priorities,
          deadline \in Deadlines :
            CreateProject(name, description, status, priority, deadline)
    \/ \E projectId \in ProjectIds(projects), name \in TaskNames,
          description \in Descriptions, status \in TaskStatuses,
          priority \in Priorities, dueDate \in DueDates,
          assignee \in Assignees :
            CreateTask(projectId, name, description, status, priority,
                       dueDate, assignee)
    \/ \E projectId \in ProjectIds(projects), taskId \in TaskIds(projects) :
            UpdateTask(projectId, taskId, [name |-> "Design"])
    \/ \E id \in ProjectIds(projects) : DeleteProject(id)
    \/ Restart
    \/ AutoSave
    \/ Tick

SpecReload == Init /\ [][NextReload]_vars

----------------------------------------------------------------------------
(* The task views over collections whose projects are renamed and whose
   tasks are moved between statuses, one of them outside the three columns *)

NextViews ==
    \/ \E status \in ProjectStatuses :
            CreateProject("Launch", "text", status, "High", "")
    \/ \E id \in ProjectIds(projects) :
            UpdateProject(id, [name |-> "Relaunch"])
    \/ \E projectId \in ProjectIds(projects), status \in TaskStatuses :
            CreateTask(projectId, "Design", "text", status, "High", "1", "")
    \/ \E projectId \in ProjectIds(projects), taskId \in TaskIds(projects),
          status \in {"Done", "done"} :
            UpdateTask(projectId, taskId, [status |-> status])
    \/ GetAllTasksCall
    \/ RenderKanban
    \/ Tick

SpecViews == Init /\ [][NextViews]_vars

----------------------------------------------------------------------------
(* The forms, the debounced autoSave and clearAllData *)

\* The delay of autoSave's setTimeout, in milliseconds.
QuietPeriod == 1000

\* setTimeout is called without the clearTimeout before it.
Mut_ScheduleAutoSave(ts, timer) ==
    ts \cup {[id |-> timer + 1, at |-> now + QuietPeriod]}

\* autoSave(): clearTimeout(autoSaveTimer), then setTimeout(..., 1000), whose
\* id is the next one.
ScheduleAutoSave(ts, timer) ==
    {t \in ts : t.id # timer}
        \cup {[id |-> timer + 1, at |-> now + QuietPeriod]}

\* The repository call leaves the storing to the debounced flush.
Mut_SavedBySubmit(ps, found) == storage

\* The stored item after the repository call of a form: saveProjects() runs
\* inside createProject, updateProject, createTask and updateTask when the
\* entity they work on is found.
SavedBySubmit(ps, found) == IF found THEN SaveProjects(ps) ELSE storage

\* The collection after handleProjectSubmit's repository call: updateProject
\* when the form holds an id, createProject otherwise.
SubmitProject(ps, id, data) ==
    IF id # ""
    THEN IF FindById(ps, id) # 0
         THEN AssignProject(ps, FindById(ps, id), data) ELSE ps
    ELSE PushProject(ps, NewProject(NewId, data.name, data.description,
                                    data.status, data.priority, data.deadline))

\* handleProjectSubmit with a valid form.
HandleProjectSubmit(id, data) ==
    /\ autoSaveTimer < MaxSaves
    /\ id = "" => Len(projects) < MaxProjects
    /\ projects' = SubmitProject(projects, id, data)
    /\ storage' = SavedBySubmit(projects',
                                id = "" \/ FindById(projects, id) # 0)
    /\ timeouts' = ScheduleAutoSave(timeouts, autoSaveTimer)
    /\ autoSaveTimer' = autoSaveTimer + 1
    /\ last' = [op |-> "handleProjectSubmit", before |-> projects,
                stored |-> storage, at |-> now]
    /\ CanRender(currentPage)
    /\ pendingRenders' = RenderPage(pendingRenders, currentPage)
    /\ UNCHANGED <<now, currentDate, draggedTask, dropListeners, currentPage,
                   content>>

\* The collection after updateTask(projectId, taskId, data).
UpdateTaskOf(ps, projectId, taskId, data) ==
    LET i == FindById(ps, projectId)
        k == IF i = 0 THEN 0 ELSE FindById(ps[i].tasks, taskId)
    IN IF k # 0 THEN [ps EXCEPT ![i].tasks[k] = AssignTask(@, data)] ELSE ps

\* The collection after handleTaskSubmit's repository call: updateTask when
\* the form holds a task id, createTask otherwise.
SubmitTask(ps, projectId, taskId, data) ==
    IF taskId # ""
    THEN UpdateTaskOf(ps, projectId, taskId, data)
    ELSE AttachTask(ps, projectId,
                       NewTask(NewId, projectId, data.name, data.description,
                               data.status, data.priority, data.dueDate,
                               data.assignee))

\* Whether the repository call of the task form reaches saveProjects:
\* createTask with the project found, updateTask with the task found.
TaskFound(ps, projectId, taskId) ==
    LET i == FindById(ps, projectId)
    IN /\ i # 0
       /\ taskId # "" => FindById(ps[i].tasks, taskId) # 0

\* handleTaskSubmit with a valid form.
HandleTaskSubmit(projectId, taskId, data) ==
    /\ autoSaveTimer < MaxSaves
    /\ (taskId = "" /\ FindById(projects, projectId) # 0) =>
            TaskCount(projects) < MaxTasks
    /\ projects' = SubmitTask(projects, projectId, taskId, data)
    /\ storage' = SavedBySubmit(projects',
                                TaskFound(projects, projectId, taskId))
    /\ timeouts' = ScheduleAutoSave(timeouts, autoSaveTimer)
    /\ autoSaveTimer' = autoSaveTimer + 1
    /\ last' = [op |-> "handleTaskSubmit", before |-> projects,
                stored |-> storage, at |-> now]
    /\ CanRender(currentPage)
    /\ pendingRenders' = RenderPage(pendingRenders, currentPage)
    /\ UNCHANGED <<now, currentDate, draggedTask, dropListeners, currentPage,
                   content>>

\* A timeout of autoSave fires: projectManager.saveProjects().
Flush ==
    \E t \in timeouts :
        /\ t.at <= now
        /\ timeouts' = timeouts \ {t}
        /\ storage' = SaveProjects(projects)
        /\ last' = [op |-> "flush", after |-> last.op, timer |-> t,
                    before |-> projects, stored |-> storage, at |-> now]
        /\ UNCHANGED <<projects, now, autoSaveTimer, currentDate, draggedTask,
                       dropListeners, currentPage, content, pendingRenders>>

\* clearAllData, confirmed.
ClearAllData ==
    /\ storage' = NoItem
    /\ projects' = <<>>
    /\ last' = [op |-> "clearAllData", before |-> projects,
                stored |-> storage, at |-> now]
    /\ CanRender(currentPage)
    /\ pendingRenders' = RenderPage(pendingRenders, currentPage)
    /\ UNCHANGED <<now, timeouts, autoSaveTimer, currentDate, draggedTask,
                   dropListeners, currentPage, content>>

\* The page is closed and opened again: the pending timeouts are gone, and
\* the script runs anew on the stored item.
Terminate ==
    /\ ~LoadProjects(storage).threw
    /\ projects' = LoadProjects(storage).value
    /\ timeouts' = {}
    /\ autoSaveTimer' = NoTimer
    /\ draggedTask' = Null
    /\ dropListeners' = 0
    /\ currentPage' = "dashboard"
    /\ content' = ""
    /\ pendingRenders' = <<"dashboard">>
    /\ last' = [op |-> "terminate", after |-> last.op,
                pending |-> timeouts # {}, before |-> projects,
                changed |-> IF last.op \in {"handleProjectSubmit",
                                            "handleTaskSubmit"}
                            THEN last.before # projects ELSE FALSE,
                submitStored |-> IF last.op \in {"handleProjectSubmit",
                                                 "handleTaskSubmit"}
                                 THEN last.stored ELSE storage]
    /\ UNCHANGED <<storage, now, currentDate>>

\* Time passes: half a quiet period, or a whole one.
Wait(ms) ==
    /\ now + ms <= MaxTime
    /\ now' = now + ms
    /\ UNCHANGED <<projects, storage, last, ui>>

\* The values of the project form and of the task form.
ProjectForms ==
    [name : ProjectNames, description : Descriptions, status : ProjectStatuses,
     priority : Priorities, deadline : Deadlines]

TaskForms ==
    [name : TaskNames, description : Descriptions, status : TaskStatuses,
     priority : Priorities, dueDate : {""}, assignee : Assignees]

NextAutoSave ==
    \/ \E id \in (ProjectIds(projects) \ {"0"}) \cup {""},
          data \in ProjectForms : HandleProjectSubmit(id, data)
    \/ \E projectId \in ProjectIds(projects) \ {"0"},
          data \in {f \in TaskForms : f.status = "To Do"} :
            HandleTaskSubmit(projectId, "", data)
    \/ Flush
    \/ ClearAllData
    \/ Terminate
    \/ \E ms \in {QuietPeriod \div 2, QuietPeriod} : Wait(ms)

SpecAutoSave == Init /\ [][NextAutoSave]_vars

----------------------------------------------------------------------------
(* The pages: navigation, the render timeouts, the checkbox and the Kanban
   board's drag and drop *)

Pages == {"dashboard", "tasks", "kanban"}

\* A click on a navigation item: renderPage(page).
Navigate(page) ==
    /\ CanRender(page)
    /\ currentPage' = page
    /\ pendingRenders' = RenderPage(pendingRenders, page)
    /\ UNCHANGED <<projects, storage, now, last, timeouts, autoSaveTimer,
                   currentDate, draggedTask, dropListeners, content>>

\* renderTasks and renderKanban call task.isOverdue() on the copies that
\* getAllTasks makes, which have no such method, for a task with a due date.
RenderThrows(ps, page) ==
    /\ page \in {"tasks", "kanban"}
    /\ \E i \in 1..Len(ps) : \E k \in 1..Len(ps[i].tasks) :
            ps[i].tasks[k].dueDate # ""

\* The oldest timeout of renderPage fires: the page's markup is written, and
\* for the Kanban page setupDragAndDrop adds its listeners to the document.
RenderTimeout ==
    /\ pendingRenders # <<>>
    /\ pendingRenders' = Tail(pendingRenders)
    /\ IF RenderThrows(projects, Head(pendingRenders))
       THEN UNCHANGED <<content, dropListeners>>
       ELSE /\ content' = Head(pendingRenders)
            /\ dropListeners' =
                    IF Head(pendingRenders) = "kanban"
                    THEN dropListeners + 1 ELSE dropListeners
    /\ UNCHANGED <<projects, storage, now, last, timeouts, autoSaveTimer,
                   currentDate, draggedTask, currentPage>>

\* The checkbox of a task on the task list: toggleTaskComplete.
ToggleTaskComplete(projectId, taskId, completed) ==
    /\ content = "tasks"
    /\ CanRender(currentPage)
    /\ projects' = UpdateTaskOf(projects, projectId, taskId,
                                [status |-> IF completed THEN "Done"
                                            ELSE "To Do",
                                 completed |-> completed])
    /\ storage' = SavedBySubmit(projects',
                                TaskFound(projects, projectId, taskId))
    /\ pendingRenders' = RenderPage(pendingRenders, currentPage)
    /\ last' = [op |-> "toggleTaskComplete", id |-> projectId,
                taskId |-> taskId, completed |-> completed,
                before |-> projects, stored |-> storage]
    /\ UNCHANGED <<now, timeouts, autoSaveTimer, currentDate, draggedTask,
                   dropListeners, currentPage, content>>

\* dragstart on a task card of the board: every listener registered sets
\* draggedTask.
DragStart(projectId, taskId) ==
    /\ content = "kanban"
    /\ dropListeners >= 1
    /\ draggedTask' = [projectId |-> projectId, taskId |-> taskId]
    /\ UNCHANGED <<projects, storage, now, last, timeouts, autoSaveTimer,
                   currentDate, dropListeners, currentPage, content,
                   pendingRenders>>

\* dragend on a task card.
DragEnd ==
    /\ dropListeners >= 1
    /\ draggedTask # Null
    /\ draggedTask' = Null
    /\ UNCHANGED <<projects, storage, now, last, timeouts, autoSaveTimer,
                   currentDate, dropListeners, currentPage, content,
                   pendingRenders>>

RECURSIVE DropUpdates(_, _, _, _)
\* The collection after n of the 'drop' listeners have run updateTask.
DropUpdates(ps, dragged, status, n) ==
    IF n = 0 THEN ps
    ELSE DropUpdates(UpdateTaskOf(ps, dragged.projectId, dragged.taskId,
                                  [status |-> status]),
                     dragged, status, n - 1)

RECURSIVE DropRenders(_, _, _)
\* The timeouts pending after n of the 'drop' listeners have run
\* renderKanbanBoard.
DropRenders(q, page, n) ==
    IF n = 0 \/ page # "kanban" THEN q
    ELSE DropRenders(RenderPage(q, "kanban"), page, n - 1)

\* A drop on the column of a status: every 'drop' listener on the document
\* runs, and each one that finds draggedTask set calls updateTask and
\* renderKanbanBoard.
Drop(status) ==
    /\ content = "kanban"
    /\ dropListeners >= 1
    /\ draggedTask # Null =>
            WithinBounds(DropRenders(pendingRenders, currentPage,
                                     dropListeners))
    /\ IF draggedTask = Null
       THEN /\ UNCHANGED <<projects, storage, pendingRenders>>
            /\ last' = [op |-> "drop", status |-> status,
                        dragged |-> draggedTask, before |-> projects,
                        stored |-> storage, calls |-> 0, writes |-> 0]
       ELSE /\ projects' = DropUpdates(projects, draggedTask, status,
                                       dropListeners)
            /\ storage' = SavedBySubmit(projects',
                                        TaskFound(projects,
                                                  draggedTask.projectId,
                                                  draggedTask.taskId))
            /\ pendingRenders' = DropRenders(pendingRenders, currentPage,
                                             dropListeners)
            /\ last' = [op |-> "drop", status |-> status,
                        dragged |-> draggedTask, before |-> projects,
                        stored |-> storage, calls |-> dropListeners,
                        writes |-> IF TaskFound(projects,
                                                draggedTask.projectId,
                                                draggedTask.taskId)
                                   THEN dropListeners ELSE 0]
    /\ UNCHANGED <<now, timeouts, autoSaveTimer, currentDate, draggedTask,
                   dropListeners, currentPage, content>>

\* The task cards and checkboxes: the (project, task) pairs of the collection.
Cards(ps) ==
    UNION {{[projectId |-> ps[i].id, taskId |-> ps[i].tasks[k].id] :
                k \in 1..Len(ps[i].tasks)} : i \in 1..Len(ps)}

NextPage ==
    \/ \E data \in {f \in ProjectForms : f.status = "Active"} :
            projects = <<>> /\ HandleProjectSubmit("", data)
    \/ \E projectId \in ProjectIds(projects) \ {"0"}, data \in TaskForms :
            HandleTaskSubmit(projectId, "", data)
    \/ \E c \in Cards(projects), data \in TaskForms :
            HandleTaskSubmit(c.projectId, c.taskId, data)
    \/ \E c \in Cards(projects), completed \in BOOLEAN :
            ToggleTaskComplete(c.projectId, c.taskId, completed)
    \/ \E page \in Pages : Navigate(page)
    \/ RenderTimeout
    \/ \E c \in Cards(projects) : DragStart(c.projectId, c.taskId)
    \/ DragEnd
    \/ \E status \in TaskStatuses : Drop(status)

SpecPage == Init /\ [][NextPage]_vars

----------------------------------------------------------------------------
(* UIController.exportData and importData *)

\* A JSON object with the given fields.
JsonObject(fields) == [json |-> "object", fields |-> fields]

\* The text exportData writes for collection ps:
\* JSON.stringify({projects, exportDate}).
ExportDocument(ps) ==
    [doc |-> "json",
     value |-> JsonObject([projects |-> StorageSave(ps).value,
                           exportDate |-> IsoString(now)])]

\* Texts of the file given to importData: one that is not JSON, the texts of
\* null, of a number and of objects without a projects field or with one
\* that is null or a number, and what exportData writes for collection ps.
Documents(ps) ==
    {[doc |-> "unparseable"],
     [doc |-> "json", value |-> JsonNull],
     [doc |-> "json", value |-> JsonNumber],
     [doc |-> "json", value |-> JsonObject([exportDate |-> IsoString(now)])],
     [doc |-> "json", value |-> JsonObject([projects |-> JsonNull])],
     [doc |-> "json", value |-> JsonObject([projects |-> JsonNumber])],
     ExportDocument(ps)}

\* JSON.parse(event.target.result) throws.
ParseThrows(doc) == doc.doc = "unparseable"

\* Reading data.projects throws: data is null.
ProjectsThrows(doc) == doc.value = JsonNull

\* data.projects is undefined: data is a number, or an object without the field.
ProjectsUndefined(doc) ==
    \/ doc.value.json # "object"
    \/ "projects" \notin DOMAIN doc.value.fields

\* StorageManager.save('projects', data.projects): the item written.
ImportSave(doc) ==
    IF ProjectsUndefined(doc) THEN UndefinedText
    ELSE JsonText(doc.value.fields.projects)

\* reader.onload of importData: parse, save, reload; any throw is caught and
\* reported as 'Invalid file format'.
ImportData(doc) ==
    /\ IF ParseThrows(doc) \/ ProjectsThrows(doc)
       THEN /\ UNCHANGED <<projects, storage>>
            /\ last' = [op |-> "importData", doc |-> doc, before |-> projects,
                        stored |-> storage, toast |-> "Invalid file format"]
       ELSE /\ storage' = ImportSave(doc)
            /\ IF LoadProjects(storage').threw
               THEN /\ UNCHANGED projects
                    /\ last' = [op |-> "importData", doc |-> doc,
                                before |-> projects, stored |-> storage,
                                toast |-> "Invalid file format"]
               ELSE /\ projects' = LoadProjects(storage').value
                    /\ last' = [op |-> "importData", doc |-> doc,
                                before |-> projects, stored |-> storage,
                                toast |-> "Data imported successfully"]
    /\ CanRender(currentPage)
    /\ pendingRenders' =
            IF ParseThrows(doc) \/ ProjectsThrows(doc)
                \/ LoadProjects(storage').threw
            THEN pendingRenders ELSE RenderPage(pendingRenders, currentPage)
    /\ UNCHANGED <<now, timeouts, autoSaveTimer, currentDate, draggedTask,
                   dropListeners, currentPage, content>>

NextImport ==
    \/ \E name \in ProjectNames, description \in Descriptions,
          status \in ProjectStatuses, priority \in Priorities,
          deadline \in Deadlines :
            CreateProject(name, description, status, priority, deadline)
    \/ \E projectId \in ProjectIds(projects), name \in TaskNames,
          description \in Descriptions, status \in TaskStatuses,
          priority \in Priorities, dueDate \in DueDates,
          assignee \in Assignees :
            CreateTask(projectId, name, description, status, priority,
                       dueDate, assignee)
    \/ \E doc \in Documents(projects) : ImportData(doc)
    \/ Tick

SpecImport == Init /\ [][NextImport]_vars

----------------------------------------------------------------------------
(* Number arithmetic of Project.getProgress: IEEE 754 binary64, round to
   nearest, ties to even.  A positive Number is sig * 2^exp, its significand
   sig a sequence of SignificandBits bits, the most significant (a 1) first. *)

SignificandBits == 53

\* The bits without their last one.
Front(bits) == SubSeq(bits, 1, Len(bits) - 1)

\* The number a short sequence of bits denotes.
RECURSIVE BitsToNat(_)
BitsToNat(bits) ==
    IF bits = <<>> THEN 0 ELSE 2 * BitsToNat(Front(bits)) + bits[Len(bits)]

\* bits + 1; one bit longer when every bit is 1.
RECURSIVE Increment(_)
Increment(bits) ==
    IF bits = <<>> THEN <<1>>
    ELSE IF bits[Len(bits)] = 0 THEN [bits EXCEPT ![Len(bits)] = 1]
    ELSE Increment(Front(bits)) \o <<0>>

\* The bits of a natural number, the most significant first; none for 0.
RECURSIVE NatBits(_)
NatBits(n) == IF n = 0 THEN <<>> ELSE NatBits(n \div 2) \o <<n % 2>>

\* Long multiplication: the bits of (the first i bits of sig) * m + carry.
RECURSIVE TimesBits(_, _, _, _)
TimesBits(sig, m, i, carry) ==
    IF i = 0 THEN NatBits(carry)
    ELSE IF (sig[i] * m + carry) % 2 = 1
    THEN TimesBits(sig, m, i - 1, (sig[i] * m + carry) \div 2) \o <<1>>
    ELSE TimesBits(sig, m, i - 1, (sig[i] * m + carry) \div 2) \o <<0>>

\* Round to nearest, ties to even: kept are the significand's bits, guard the
\* first bit dropped, sticky whether a later dropped bit is 1; exp is the
\* exponent of kept's last bit.
RoundToEven(kept, guard, sticky, exp) ==
    LET up == guard = 1 /\ (sticky \/ kept[Len(kept)] = 1)
        sig == IF up THEN Increment(kept) ELSE kept
    IN IF Len(sig) > SignificandBits
       THEN [sig |-> Front(sig), exp |-> exp + 1]
       ELSE [sig |-> sig, exp |-> exp]

\* The number of zero bits of r / n right after the binary point (0 < r < n).
RECURSIVE LeadingZeros(_, _)
LeadingZeros(r, n) == IF 2 * r >= n THEN 0 ELSE 1 + LeadingZeros(2 * r, n)

\* Long division: the next count bits of the binary expansion of r / n
\* (0 <= r < n), followed by the remainder left.
RECURSIVE QuotientBits(_, _, _)
QuotientBits(r, n, count) ==
    IF count = 0 THEN <<r>>
    ELSE IF 2 * r >= n THEN <<1>> \o QuotientBits(2 * r - n, n, count - 1)
    ELSE <<0>> \o QuotientBits(2 * r, n, count - 1)

RECURSIVE Pow2(_)
Pow2(k) == IF k = 0 THEN 1 ELSE 2 * Pow2(k - 1)

\* completed / this.tasks.length for 0 < d < n: the quotient rounded to a Number.
Divide(d, n) ==
    LET z == LeadingZeros(d, n)
        q == QuotientBits(d * Pow2(z), n, SignificandBits)
        rem == q[SignificandBits + 1]
    IN RoundToEven(Front(q), IF 2 * rem >= n THEN 1 ELSE 0,
                   2 * rem # n /\ rem # 0, 0 - (z + SignificandBits))

\* x * 100: the exact product of the significand, rounded to a Number.
Times100(x) ==
    LET product == TimesBits(x.sig, 100, SignificandBits, 0)
        dropped == SubSeq(product, SignificandBits + 1, Len(product))
    IN RoundToEven(SubSeq(product, 1, SignificandBits), dropped[1],
                   \E i \in 2..Len(dropped) : dropped[i] = 1,
                   x.exp + Len(dropped))

\* Math.round(x) for x > 0: the nearest integer, a half going up.
MathRound(x) ==
    LET whole == SignificandBits + x.exp      \* bits before the binary point
    IN IF whole < 0 THEN 0
       ELSE BitsToNat(SubSeq(x.sig, 1, whole)) + x.sig[whole + 1]

\* The tasks of a list whose status is exactly 'Done'.
DoneCount(tasks) == Len(SelectSeq(tasks, LAMBDA t : t.status = "Done"))

\* The quotient is truncated to an integer before it is multiplied.
Mut_Percent(completed, n) == (completed \div n) * 100

\* Math.round((completed / this.tasks.length) * 100); 0 / n is 0 and n / n is
\* 1, whose products with 100 are exact.
Percent(completed, n) ==
    IF completed = 0 THEN 0
    ELSE IF completed = n THEN 100
    ELSE MathRound(Times100(Divide(completed, n)))

\* Project.getProgress()
GetProgressOf(p) ==
    IF Len(p.tasks) = 0 THEN 0 ELSE Percent(DoneCount(p.tasks), Len(p.tasks))

\* A project after n calls of createTask, the first d of them with the status
\* 'Done'; stale says that the completed flags were left false, as updateTask
\* leaves them for a payload without a status.
RECURSIVE TasksOf(_, _, _)
TasksOf(n, d, stale) ==
    IF n = 0 THEN <<>>
    ELSE LET t == NewTask(ToString(n), "1", "Design", "text",
                          IF n <= d THEN "Done" ELSE "To Do", "High", "", "")
         IN Append(TasksOf(n - 1, d, stale),
                   IF stale THEN [t EXCEPT !.completed = FALSE] ELSE t)

ProjectOf(n, d, stale) ==
    [NewProject("1", "Launch", "text", "Active", "High", "")
        EXCEPT !.tasks = TasksOf(n, d, stale)]

\* project.getProgress(), as the project cards and the detail view call it.
GetProgress(i) ==
    /\ last' = [op |-> "getProgress", id |-> projects[i].id,
                before |-> projects, ret |-> GetProgressOf(projects[i])]
    /\ UNCHANGED <<projects, storage, now, ui>>

InitProgress ==
    /\ now = 1
    /\ \E n \in 0..MaxProgressTasks : \E d \in 0..n : \E stale \in BOOLEAN :
           /\ projects = <<ProjectOf(n, d, stale)>>
           /\ storage = StorageSave(<<ProjectOf(n, d, stale)>>)
    /\ last = [op |-> "init", ret |-> Undefined]
    /\ InitUI

NextProgress == \E i \in 1..Len(projects) : GetProgress(i)

SpecProgress == InitProgress /\ [][NextProgress]_vars

\* Projects of up to MaxLargeTasks tasks, their completed flags in step with
\* their statuses.
InitLarge ==
    /\ now = 1
    /\ \E n \in 1..MaxLargeTasks : \E d \in 0..n :
           /\ projects = <<ProjectOf(n, d, FALSE)>>
           /\ storage = NoItem
    /\ last = [op |-> "init", ret |-> Undefined]
    /\ InitUI

SpecLarge == InitLarge /\ [][NextProgress]_vars

----------------------------------------------------------------------------
(* CalendarManager *)

\* One cell of the month grid.
Cell(day, month, year, isCurrentMonth) ==
    [day |-> day, month |-> month, year |-> year,
     isCurrentMonth |-> isCurrentMonth]

\* getMonthData(year, month): the cells pushed by the three loops.
GetMonthDataOf(year, month) ==
    LET firstDayOfWeek == GetDay(NewDate(year, month, 1))
        daysInMonth == GetDate(NewDate(year, month + 1, 0))
        daysInPrevMonth == GetDate(NewDate(year, month, 0))
        previous == [k \in 1..firstDayOfWeek |->
                        Cell(daysInPrevMonth - (firstDayOfWeek - k), month - 1,
                             IF month = 0 THEN year - 1 ELSE year, FALSE)]
        current == [i \in 1..daysInMonth |-> Cell(i, month, year, TRUE)]
        remainingDays == 42 - (firstDayOfWeek + daysInMonth)
        following == [i \in 1..remainingDays |->
                         Cell(i, month + 1,
                              IF month = 11 THEN year + 1 ELSE year, FALSE)]
    IN previous \o current \o following

\* renderCalendar: new Date(day.year, day.month, day.day), the date a cell's
\* tasks are looked up for.
CellDate(cell) == NewDate(cell.year, cell.month, cell.day)

\* The years the calendar is asked for: two-digit years, the centuries with
\* and without a leap day, and the years around today.
CalendarYears == {0, 50, 99, 100, 1900, 2000, 2100} \cup (2020..2030)

\* calendarManager.getMonthData(year, month)
GetMonthData(year, month) ==
    /\ last' = [op |-> "getMonthData", year |-> year, month |-> month,
                ret |-> GetMonthDataOf(year, month)]
    /\ UNCHANGED <<projects, storage, now, ui>>

NextCalendar ==
    \E year \in CalendarYears : \E month \in 0..11 : GetMonthData(year, month)

SpecCalendar == Init /\ [][NextCalendar]_vars

----------------------------------------------------------------------------
(* The calendar's month navigation *)

\* Date.prototype.setMonth(month) on the date of day number day: the year and
\* the day of the month are kept, and MakeDay carries what overflows.
SetMonth(day, month) == MakeDay(YearFromDay(day), month, GetDate(day))

\* The years the navigation is followed through.
NavigationYears == (MaxYear - 2)..MaxYear

\* The days the page may be opened on: every day of the middle year.
OpeningDays ==
    DayFromYear(MaxYear - 1)..(DayFromYear(MaxYear) - 1)

\* uiController.nextMonth()
NextMonth ==
    /\ YearFromDay(SetMonth(currentDate, MonthFromDay(currentDate) + 1))
            \in NavigationYears
    /\ CanRender("calendar")
    /\ currentDate' = SetMonth(currentDate, MonthFromDay(currentDate) + 1)
    /\ currentPage' = "calendar"
    /\ pendingRenders' = RenderPage(pendingRenders, "calendar")
    /\ last' = [op |-> "nextMonth", before |-> currentDate,
                after |-> last.op,
                start |-> IF last.op \in {"nextMonth", "prevMonth"}
                          THEN last.before ELSE currentDate]
    /\ UNCHANGED <<projects, storage, now, timeouts, autoSaveTimer,
                   draggedTask, dropListeners, content>>

\* uiController.prevMonth()
PrevMonth ==
    /\ YearFromDay(SetMonth(currentDate, MonthFromDay(currentDate) - 1))
            \in NavigationYears
    /\ CanRender("calendar")
    /\ currentDate' = SetMonth(currentDate, MonthFromDay(currentDate) - 1)
    /\ currentPage' = "calendar"
    /\ pendingRenders' = RenderPage(pendingRenders, "calendar")
    /\ last' = [op |-> "prevMonth", before |-> currentDate,
                after |-> last.op,
                start |-> IF last.op \in {"nextMonth", "prevMonth"}
                          THEN last.before ELSE currentDate]
    /\ UNCHANGED <<projects, storage, now, timeouts, autoSaveTimer,
                   draggedTask, dropListeners, content>>

\* uiController.todayMonth(): new Date(), on whichever day the button is
\* pressed.
TodayMonth(today) ==
    /\ CanRender("calendar")
    /\ currentDate' = today
    /\ currentPage' = "calendar"
    /\ pendingRenders' = RenderPage(pendingRenders, "calendar")
    /\ last' = [op |-> "todayMonth", ret |-> Undefined]
    /\ UNCHANGED <<projects, storage, now, timeouts, autoSaveTimer,
                   draggedTask, dropListeners, content>>

\* The month shown: getCurrentYear() and getCurrentMonth().
Shown(day) == <<YearFromDay(day), MonthFromDay(day)>>

\* The page opened on any of the opening days.
InitMonths ==
    /\ projects = <<>>
    /\ storage = NoItem
    /\ now = 1
    /\ last = [op |-> "init", ret |-> Undefined]
    /\ timeouts = {}
    /\ autoSaveTimer = NoTimer
    /\ currentDate \in OpeningDays
    /\ draggedTask = Null
    /\ dropListeners = 0
    /\ currentPage = "dashboard"
    /\ content = ""
    /\ pendingRenders = <<"dashboard">>

NextMonths ==
    \/ NextMonth
    \/ PrevMonth
    \/ \E today \in OpeningDays : TodayMonth(today)

SpecMonths == InitMonths /\ [][NextMonths]_vars

----------------------------------------------------------------------------
(* Facts about a collection used to state the properties *)

\* No project of collection ps has this id.
NoProject(ps, id) == \A i \in 1..Len(ps) : ps[i].id # id

\* The position of the project a lookup by id gives: the first with that id.
FirstProject(ps, id) ==
    CHOOSE i \in 1..Len(ps) :
        ps[i].id = id /\ \A j \in 1..(i - 1) : ps[j].id # id

\* The lookup of (projectId, taskId) gives no task.
NoTask(ps, projectId, taskId) ==
    \/ NoProject(ps, projectId)
    \/ \A k \in 1..Len(ps[FirstProject(ps, projectId)].tasks) :
            ps[FirstProject(ps, projectId)].tasks[k].id # taskId

IsAbsent(v) == v = Undefined \/ v = Null

\* The stored tasks of collection ps, as a set.
StoredTasks(ps) ==
    UNION {{ps[i].tasks[k] : k \in 1..Len(ps[i].tasks)} : i \in 1..Len(ps)}

\* The elements of a sequence, as a set.
Range(seq) == {seq[i] : i \in 1..Len(seq)}

\* View entry u (a task annotated with projectName) shows stored task t.
Shows(u, t) == [f \in DOMAIN t |-> u[f]] = t

----------------------------------------------------------------------------
(* C1: in every state reachable by createTask/updateTask calls, every stored
   task has completed == (status == "Done"), also after an update whose
   payload holds no status. *)
Cex_C1 ==
    \A t \in StoredTasks(projects) : t.completed = (t.status = "Done")

----------------------------------------------------------------------------
(* C3: after deleteProject(id) no task of a project with that id appears in
   getAllTasks(), getOverdueTasks(), getPendingTasks() or getTasksByStatus(s),
   getStats().total has decreased by exactly the number of tasks those
   projects owned, and in every state each task of getAllTasks() belongs to
   a project of the collection. *)
OwnedBy(ps, id) ==
    UNION {{ps[i].tasks[k] : k \in 1..Len(ps[i].tasks)} :
            i \in {j \in 1..Len(ps) : ps[j].id = id}}

OwnedCount(ps, id) ==
    TaskCount(SelectSeq(ps, LAMBDA p : p.id = id))

Views(ps) ==
    {GetAllTasks(ps), GetOverdueTasks(ps), GetPendingTasks(ps)}
        \cup {GetTasksByStatus(ps, s) : s \in TaskStatuses}

Thm_C3 ==
    /\ last.op = "deleteProject" =>
        /\ \A t \in OwnedBy(last.before, last.id) :
            \A view \in Views(projects) :
                \A u \in Range(view) : ~Shows(u, t)
        /\ TaskStats(projects).total =
            TaskStats(last.before).total - OwnedCount(last.before, last.id)
    /\ \A u \in Range(GetAllTasks(projects)) :
        \E i \in 1..Len(projects) :
            /\ projects[i].id = u.projectId
            /\ \E k \in 1..Len(projects[i].tasks) :
                Shows(u, projects[i].tasks[k])

\* deleteProject has removed a project that owned a task, and a project with
\* a task of its own is left.
Wit_C3 ==
    /\ last.op = "deleteProject"
    /\ OwnedCount(last.before, last.id) > 0
    /\ TaskCount(projects) > 0

----------------------------------------------------------------------------
(* C4: right after each mutating repository call (createProject,
   updateProject on an existing id, deleteProject, createTask on an existing
   project, updateTask on an existing task, deleteTask on an existing
   project) the item stored under 'projects' is the serialization of the
   whole in-memory collection, so that loadProjects on a restart yields a
   collection equal field for field to the one in memory. *)
Persisted ==
    \/ last.op \in {"createProject", "deleteProject"}
    \/ /\ last.op \in {"updateProject", "createTask", "deleteTask"}
       /\ ~NoProject(last.before, last.id)
    \/ /\ last.op = "updateTask"
       /\ ~NoTask(last.before, last.id, last.taskId)

Cex_C4 ==
    Persisted =>
        /\ storage = StorageSave(projects)
        /\ LoadProjects(storage) = [threw |-> FALSE, value |-> projects]

----------------------------------------------------------------------------
(* C6: in every state reachable by createProject and createTask calls, the
   clock being allowed to give the same millisecond to consecutive calls, no
   two projects have the same id and no two tasks of one project have the
   same id. *)
Cex_C6 ==
    /\ \A i, j \in 1..Len(projects) :
        projects[i].id = projects[j].id => i = j
    /\ \A i \in 1..Len(projects) :
        \A k, m \in 1..Len(projects[i].tasks) :
            projects[i].tasks[k].id = projects[i].tasks[m].id => k = m

----------------------------------------------------------------------------
(* C7: createTask with a projectId that matches no project returns no Task,
   changes no project's task list and persists nothing. *)
Cex_C7 ==
    (last.op = "createTask" /\ NoProject(last.before, last.id)) =>
        /\ IsAbsent(last.ret)
        /\ projects = last.before
        /\ storage = last.stored

(* C7 as amended: createTask with a projectId that matches no project
   returns the Task it constructed (with that projectId and completed ==
   (status == "Done")), which is in no project's task list; no project's
   task list changes and nothing is persisted. *)
Thm_C7 ==
    (last.op = "createTask" /\ NoProject(last.before, last.id)) =>
        /\ ~IsAbsent(last.ret)
        /\ last.ret.projectId = last.id
        /\ last.ret.completed = (last.ret.status = "Done")
        /\ last.ret \notin StoredTasks(projects)
        /\ projects = last.before
        /\ storage = last.stored

\* createTask was called with an unknown project id while projects exist.
Wit_C7 ==
    /\ last.op = "createTask"
    /\ NoProject(last.before, last.id)
    /\ Len(projects) > 0

----------------------------------------------------------------------------
(* C8: updateProject, deleteProject, getProject, updateTask, deleteTask and
   getTask called with a project id or task id that matches no entity return
   an absent value (undefined or null) and leave the in-memory collection,
   every project, every task and their order, unchanged. *)
Thm_C8 ==
    /\ (/\ last.op \in {"updateProject", "deleteProject", "getProject"}
        /\ NoProject(last.before, last.id)) =>
            (projects = last.before /\ IsAbsent(last.ret))
    /\ (/\ last.op \in {"updateTask", "deleteTask", "getTask"}
        /\ NoTask(last.before, last.id, last.taskId)) =>
            (projects = last.before /\ IsAbsent(last.ret))

\* deleteTask was called on an existing project that holds tasks, with a
\* task id none of them has.
Wit_C8 ==
    /\ last.op = "deleteTask"
    /\ ~NoProject(last.before, last.id)
    /\ NoTask(last.before, last.id, last.taskId)
    /\ last.before[FirstProject(last.before, last.id)].tasks # <<>>

----------------------------------------------------------------------------
(* C9: updateProject(id, fields) on an existing project overwrites exactly
   the fields of the payload, leaves the project's other fields (its task
   list too), every other project and the order of the collection
   unchanged, and returns the updated project. *)
Thm_C9 ==
    (last.op = "updateProject" /\ ~NoProject(last.before, last.id)) =>
        LET i == FirstProject(last.before, last.id)
        IN /\ Len(projects) = Len(last.before)
           /\ \A j \in 1..Len(projects) : j # i => projects[j] = last.before[j]
           /\ DOMAIN projects[i] = DOMAIN last.before[i]
           /\ \A f \in DOMAIN projects[i] :
                projects[i][f] = IF f \in DOMAIN last.data
                                 THEN last.data[f] ELSE last.before[i][f]
           /\ last.ret = projects[i]

\* updateProject changed the status, and nothing else, of a project that
\* holds a task, next to another project.
Wit_C9 ==
    /\ last.op = "updateProject"
    /\ ~NoProject(last.before, last.id)
    /\ DOMAIN last.data = {"status"}
    /\ Len(projects) = 2
    /\ LET i == FirstProject(last.before, last.id)
       IN /\ last.before[i].status # last.data.status
          /\ last.before[i].tasks # <<>>

----------------------------------------------------------------------------
(* C5: getProgress() returns 0 for a project without tasks and otherwise
   100 * d / n rounded to the nearest integer, a half going up, where n is
   the number of the project's tasks and d the number of those whose status
   is 'Done'; the result is an integer in 0..100 and does not depend on the
   completed flags. *)
Cex_C5 ==
    last.op = "getProgress" =>
        LET tasks == last.before[FirstProject(last.before, last.id)].tasks
            n == Len(tasks)
            d == DoneCount(tasks)
        IN /\ last.ret \in 0..100
           /\ last.ret = IF n = 0 THEN 0 ELSE (200 * d + n) \div (2 * n)

----------------------------------------------------------------------------
(* C10: for every year and every month index 0..11, getMonthData(year,
   month) returns exactly 42 cells; the number of cells before the month's
   own cells is the weekday index (0..6, Sunday 0) of the 1st of that month
   of that year, so that the first cell is the Sunday on or before the 1st. *)
LeadingCells(cells) ==
    Cardinality({i \in 1..Len(cells) :
                    \A j \in 1..i : ~cells[j].isCurrentMonth})

Cex_C10 ==
    last.op = "getMonthData" =>
        LET first == MakeDay(last.year, last.month, 1)
            sunday == first - GetDay(first)
        IN /\ Len(last.ret) = 42
           /\ LeadingCells(last.ret) = GetDay(first)
           /\ last.ret[1].day = GetDate(sunday)
           /\ GetDay(sunday) = 0

----------------------------------------------------------------------------
(* C11: for every year and month, the cells of getMonthData(year, month)
   with isCurrentMonth true form one contiguous run whose length is the
   number of days of that month of that year (leap years included), with the
   day numbers 1..n in increasing order; every cell before and after the run
   has isCurrentMonth false. *)
DaysInMonth(year, month) == MakeDay(year, month + 1, 1) - MakeDay(year, month, 1)

Cex_C11 ==
    last.op = "getMonthData" =>
        LET cells == last.ret
            n == DaysInMonth(last.year, last.month)
        IN \E start \in 0..(Len(cells) - n) :
              \A i \in 1..Len(cells) :
                 IF i > start /\ i <= start + n
                 THEN cells[i].isCurrentMonth /\ cells[i].day = i - start
                 ELSE ~cells[i].isCurrentMonth

----------------------------------------------------------------------------
(* C12: every cell of getMonthData(year, month) carries a month index in
   0..11 and a year such that the dates the calendar view builds from the 42
   cells are 42 consecutive calendar days: the leading cells of January are
   December (index 11) of year - 1, the trailing cells of December are
   January (index 0) of year + 1. *)
Cex_C12 ==
    last.op = "getMonthData" =>
        LET cells == last.ret
        IN /\ \A i \in 1..Len(cells) : cells[i].month \in 0..11
           /\ \A i \in 1..(Len(cells) - 1) :
                 CellDate(cells[i + 1]) = CellDate(cells[i]) + 1
           /\ \A i \in 1..Len(cells) :
                 ~cells[i].isCurrentMonth =>
                    /\ (last.month = 0 /\ cells[i].day > 20) =>
                          (cells[i].month = 11 /\ cells[i].year = last.year - 1)
                    /\ (last.month = 11 /\ cells[i].day < 20) =>
                          (cells[i].month = 0 /\ cells[i].year = last.year + 1)

----------------------------------------------------------------------------
(* C13: in every state reachable by createTask and updateTask calls, partial
   updates without a status included, no task whose status is 'Done' is
   reported overdue (it is not in getOverdueTasks() and not counted in
   getStats().overdue), and a task is reported overdue only if its dueDate is
   set and strictly before the current time. *)
Cex_C13 ==
    LET overdue == GetOverdueTasks(projects)
    IN /\ \A i \in 1..Len(overdue) :
             /\ overdue[i].status # "Done"
             /\ overdue[i].dueDate # ""
             /\ ParseDate(overdue[i].dueDate) < now
       /\ TaskStats(projects).overdue =
             Len(SelectSeq(overdue, LAMBDA t : t.status # "Done"))

----------------------------------------------------------------------------
(* C14: in every reachable state TaskManager.getStats() returns toDo,
   inProgress and completed equal to the number of tasks, over all projects,
   whose status is 'To Do', 'In Progress' and 'Done', pending equal to the
   number of tasks with completed false, overdue equal to the length of
   getOverdueTasks(), and total equal to the number of all tasks. *)
CountTasks(ps, P(_)) ==
    Cardinality({<<i, k>> \in (1..Len(ps)) \X (1..MaxTasks + 1) :
                    k <= Len(ps[i].tasks) /\ P(ps[i].tasks[k])})

Cex_C14 ==
    LET stats == TaskStats(projects)
    IN /\ stats.toDo = CountTasks(projects, LAMBDA t : t.status = "To Do")
       /\ stats.inProgress =
             CountTasks(projects, LAMBDA t : t.status = "In Progress")
       /\ stats.completed = CountTasks(projects, LAMBDA t : t.status = "Done")
       /\ stats.pending = CountTasks(projects, LAMBDA t : ~t.completed)
       /\ stats.overdue = Len(GetOverdueTasks(projects))
       /\ stats.total = CountTasks(projects, LAMBDA t : TRUE)

----------------------------------------------------------------------------
(* C15: ProjectManager.getStats() returns total equal to the number of
   projects and active, completed and onHold equal to the number of projects
   whose status is exactly 'Active', 'Completed' and 'On Hold'; a project
   with any other status is counted in total and in none of the three, so
   active + completed + onHold <= total, and on an empty collection every
   count is 0. *)
ProjectsWith(ps, status) ==
    Cardinality({i \in 1..Len(ps) : ps[i].status = status})

Thm_C15 ==
    last.op = "getStats" =>
        /\ DOMAIN last.ret = {"total", "active", "completed", "onHold"}
        /\ last.ret.total = Len(last.before)
        /\ last.ret.active = ProjectsWith(last.before, "Active")
        /\ last.ret.completed = ProjectsWith(last.before, "Completed")
        /\ last.ret.onHold = ProjectsWith(last.before, "On Hold")
        /\ last.ret.active + last.ret.completed + last.ret.onHold
                <= last.ret.total
        /\ last.before = <<>> =>
                last.ret = [total |-> 0, active |-> 0, completed |-> 0,
                            onHold |-> 0]
        /\ projects = last.before

\* getStats was called on a collection holding an 'Active' project and one
\* whose status is none of the three.
Wit_C15 ==
    /\ last.op = "getStats"
    /\ ProjectsWith(last.before, "Active") = 1
    /\ ProjectsWith(last.before, "Archived") = 1
    /\ last.ret.total = 2

----------------------------------------------------------------------------
(* C2: for every import document that is not a valid export-shaped document
   (unparseable text, a parsed value with no projects field, a projects
   field that is not a sequence of projects) the import reports an error and
   leaves the item stored under 'projects' and the in-memory collection as
   they were. *)
ValidDocument(doc) ==
    /\ doc.doc = "json"
    /\ doc.value.json = "object"
    /\ "projects" \in DOMAIN doc.value.fields
    /\ doc.value.fields.projects.json = "array"

Cex_C2 ==
    (last.op = "importData" /\ ~ValidDocument(last.doc)) =>
        /\ last.toast = "Invalid file format"
        /\ storage = last.stored
        /\ projects = last.before

----------------------------------------------------------------------------
(* C16: when the import document parses and holds a projects field with a
   project collection of the persisted schema, the import replaces the item
   stored under 'projects' and the in-memory collection with exactly that
   collection; importing the document exportData has just written leaves the
   in-memory and the persisted collection equal field for field to what they
   were before. *)
Cex_C16 ==
    (last.op = "importData" /\ ValidDocument(last.doc)) =>
        /\ storage = JsonText(last.doc.value.fields.projects)
        /\ StorageSave(projects) = storage
        /\ last.doc.value.fields.projects = StorageSave(last.before).value =>
              /\ projects = last.before
              /\ LoadProjects(storage) = LoadProjects(last.stored)

----------------------------------------------------------------------------
(* C17: for every collection the repository operations built and saved,
   loading it with loadProjects and saving it again with saveProjects, with no
   mutation in between, stores a value identical to the one loaded: the same
   projects in the same order, the same fields, the same nested tasks in the
   same order. *)
Thm_C17 ==
    (/\ last.op = "saveProjects"
     /\ last.after = "loadProjects"
     /\ last.stored # NoItem) => storage = last.stored

\* A collection of two projects, one with a task, was loaded and saved again.
Wit_C17 ==
    /\ last.op = "saveProjects"
    /\ last.after = "loadProjects"
    /\ last.stored # NoItem
    /\ Len(projects) = 2
    /\ TaskCount(projects) > 0

----------------------------------------------------------------------------
(* C18: createTask on an existing project appends the new task as the last
   element of that project's task list, with completed == (status == "Done")
   and projectId equal to the owning project's id, leaves the earlier tasks
   of that project and every other project unchanged and in the same order,
   persists, and returns the new task. *)
Thm_C18 ==
    (last.op = "createTask" /\ ~NoProject(last.before, last.id)) =>
        LET i == FirstProject(last.before, last.id)
            n == Len(last.before[i].tasks)
        IN /\ Len(projects) = Len(last.before)
           /\ \A j \in 1..Len(projects) : j # i => projects[j] = last.before[j]
           /\ \A f \in DOMAIN projects[i] :
                 f # "tasks" => projects[i][f] = last.before[i][f]
           /\ Len(projects[i].tasks) = n + 1
           /\ \A k \in 1..n : projects[i].tasks[k] = last.before[i].tasks[k]
           /\ projects[i].tasks[n + 1] = last.ret
           /\ last.ret.completed = (last.ret.status = "Done")
           /\ last.ret.projectId = projects[i].id
           /\ storage = StorageSave(projects)

\* createTask added a second task to a project, next to another project.
Wit_C18 ==
    /\ last.op = "createTask"
    /\ ~NoProject(last.before, last.id)
    /\ Len(projects) = 2
    /\ Len(last.before[FirstProject(last.before, last.id)].tasks) = 1
    /\ last.ret.status = "Done"

----------------------------------------------------------------------------
(* C19: getAllTasks() returns every task of every project exactly once,
   ordered by the project's position in the collection and then by the
   task's position in that project's list, each annotated with projectName
   equal to the current name of its owning project; the call does not change
   the stored collection. *)
TasksBefore(ps, i) == TaskCount(SubSeq(ps, 1, i - 1))

Thm_C19 ==
    last.op = "getAllTasks" =>
        /\ Len(last.ret) = TaskCount(last.before)
        /\ \A i \in 1..Len(last.before) :
              \A k \in 1..Len(last.before[i].tasks) :
                 LET u == last.ret[TasksBefore(last.before, i) + k]
                 IN /\ Shows(u, last.before[i].tasks[k])
                    /\ DOMAIN u =
                          DOMAIN last.before[i].tasks[k] \cup {"projectName"}
                    /\ u.projectName = last.before[i].name
        /\ projects = last.before
        /\ storage = last.stored

\* getAllTasks was called on two projects with a task each, the first of
\* them renamed.
Wit_C19 ==
    /\ last.op = "getAllTasks"
    /\ Len(last.before) = 2
    /\ \A i \in 1..2 : Len(last.before[i].tasks) = 1
    /\ last.before[1].name = "Relaunch"
    /\ last.before[2].name = "Launch"

----------------------------------------------------------------------------
(* C20: the three Kanban columns getTasksByStatus("To Do"),
   getTasksByStatus("In Progress") and getTasksByStatus("Done") each hold
   exactly the tasks of getAllTasks() whose status is the column's, by exact
   case-sensitive match, in the order of getAllTasks(); every task whose
   status is one of the three is in exactly one column, and a task with any
   other status (such as "done") is in none. *)
IsColumn(column, all, status) ==
    /\ Len(column) = Cardinality({i \in 1..Len(all) : all[i].status = status})
    /\ \A i \in 1..Len(all) :
          all[i].status = status =>
             column[Cardinality({j \in 1..i : all[j].status = status})] = all[i]

Thm_C20 ==
    last.op = "renderKanban" =>
        LET all == GetAllTasks(last.before)
        IN /\ IsColumn(last.todoTasks, all, "To Do")
           /\ IsColumn(last.inProgressTasks, all, "In Progress")
           /\ IsColumn(last.doneTasks, all, "Done")
           /\ Len(last.todoTasks) + Len(last.inProgressTasks)
                  + Len(last.doneTasks)
                = Cardinality({i \in 1..Len(all) :
                                 all[i].status \in TaskStatuses})
           /\ \A column \in {last.todoTasks, last.inProgressTasks,
                              last.doneTasks} :
                 \A i \in 1..Len(column) : column[i].status \in TaskStatuses

\* The board was rendered for a task with the status "done" and a task with
\* the status "Done".
Wit_C20 ==
    /\ last.op = "renderKanban"
    /\ Len(last.doneTasks) = 1
    /\ \E u \in Range(GetAllTasks(last.before)) : u.status = "done"

----------------------------------------------------------------------------
(* C21, C22, C26: the debounced autoSave *)

FormSubmits == {"handleProjectSubmit", "handleTaskSubmit"}

\* C21: at most one flush of autoSave is pending, and it is the one the latest
\* autoSave() call scheduled, a quiet period after that call (every earlier
\* one is cancelled); a flush fires no earlier than that, leaves no flush
\* pending, and stores the collection as it is when it fires.
Thm_C21 ==
    /\ Cardinality(timeouts) <= 1
    /\ \A t \in timeouts : t.id = autoSaveTimer
    /\ last.op \in FormSubmits =>
            timeouts = {[id |-> autoSaveTimer, at |-> last.at + QuietPeriod]}
    /\ last.op = "flush" =>
            /\ timeouts = {}
            /\ last.timer.id = autoSaveTimer
            /\ last.timer.at <= last.at
            /\ projects = last.before
            /\ storage = SaveProjects(projects)

\* The flush of a burst of two calls less than a quiet period apart has
\* fired: the second call was made at 501, after a first one at 1 or 501.
Wit_C21 ==
    /\ last.op = "flush"
    /\ last.timer = [id |-> 2, at |-> 501 + QuietPeriod]

\* C22 as stated: when the page is closed while the flush of a form submit
\* that changed the collection is pending, the stored item is still the one
\* from before the submit.
Cex_C22 ==
    (last.op = "terminate" /\ last.after \in FormSubmits /\ last.pending
        /\ last.changed) => storage = last.submitStored

\* C22, amended: when the page is closed while the flush of a form submit
\* that changed the collection is pending, the stored item already is the
\* serialisation of the changed collection.
Thm_C22 ==
    (last.op = "terminate" /\ last.after \in FormSubmits /\ last.pending
        /\ last.changed) =>
        /\ storage = SaveProjects(last.before)
        /\ storage # last.submitStored

Wit_C22 ==
    /\ last.op = "terminate"
    /\ last.after = "handleTaskSubmit"
    /\ last.pending
    /\ last.changed

\* C26: after clearAllData the collection is empty and the item is absent,
\* and a flush that was pending at the time does not store it again.
Cex_C26 ==
    /\ last.op = "clearAllData" => projects = <<>> /\ storage = NoItem
    /\ (last.op = "flush" /\ last.after = "clearAllData") => storage = NoItem

----------------------------------------------------------------------------
(* C23: deleteTask *)

\* The sequence q without its k-th element.
WithoutAt(q, k) == SubSeq(q, 1, k - 1) \o SubSeq(q, k + 1, Len(q))

\* C23: deleteTask on a project and a task that exist removes exactly that
\* one task: the project's other tasks stay as they were and in their order,
\* every other project is unchanged, and getTask no longer finds the task.
Cex_C23 ==
    (last.op = "deleteTask" /\ FindById(last.before, last.id) # 0) =>
        LET i == FindById(last.before, last.id)
            k == FindById(last.before[i].tasks, last.taskId)
        IN k # 0 =>
            /\ Len(projects) = Len(last.before)
            /\ projects[i].tasks = WithoutAt(last.before[i].tasks, k)
            /\ Len(projects[i].tasks) = Len(last.before[i].tasks) - 1
            /\ \A j \in 1..Len(projects) :
                    j # i => projects[j] = last.before[j]
            /\ IsAbsent(GetTaskOf(projects, last.id, last.taskId))

----------------------------------------------------------------------------
(* C24, C27: the task form, the checkbox and the Kanban drop *)

\* C24: through the task form, the checkbox and the Kanban drop, every stored
\* task has completed = (status = "Done"); the checkbox switched on gives
\* "Done" and true, switched off "To Do" and false; a drop gives the column's
\* status, with completed recomputed from it.
Thm_C24 ==
    /\ \A t \in StoredTasks(projects) : t.completed = (t.status = "Done")
    /\ (last.op = "toggleTaskComplete"
            /\ ~IsAbsent(GetTaskOf(last.before, last.id, last.taskId))) =>
        LET t == GetTaskOf(projects, last.id, last.taskId)
        IN /\ t.status = IF last.completed THEN "Done" ELSE "To Do"
           /\ t.completed = last.completed
    /\ (last.op = "drop" /\ last.dragged # Null
            /\ ~IsAbsent(GetTaskOf(last.before, last.dragged.projectId,
                                   last.dragged.taskId))) =>
        LET t == GetTaskOf(projects, last.dragged.projectId,
                           last.dragged.taskId)
        IN /\ t.status = last.status
           /\ t.completed = (last.status = "Done")

\* A task that was not done has been dropped on the Done column.
Wit_C24 ==
    /\ last.op = "drop"
    /\ last.dragged # Null
    /\ last.status = "Done"
    /\ ~IsAbsent(GetTaskOf(last.before, last.dragged.projectId,
                           last.dragged.taskId))
    /\ ~GetTaskOf(last.before, last.dragged.projectId,
                  last.dragged.taskId).completed
    /\ GetTaskOf(projects, last.dragged.projectId,
                 last.dragged.taskId).completed

\* C27: a drop while a task is dragged makes exactly one updateTask call and
\* one write; a drop while none is dragged makes none.
Cex_C27 ==
    last.op = "drop" =>
        IF last.dragged = Null THEN last.calls = 0 /\ last.writes = 0
        ELSE /\ last.calls = 1
             /\ ~IsAbsent(GetTaskOf(last.before, last.dragged.projectId,
                                    last.dragged.taskId)) => last.writes = 1

----------------------------------------------------------------------------
(* C25: nextMonth and prevMonth *)

\* The calendar month after <<year, month>>, and the one before it.
Following(ym) == IF ym[2] = 11 THEN <<ym[1] + 1, 0>> ELSE <<ym[1], ym[2] + 1>>

Preceding(ym) == IF ym[2] = 0 THEN <<ym[1] - 1, 11>> ELSE <<ym[1], ym[2] - 1>>

\* C25: from any current date nextMonth shows exactly the following calendar
\* month and prevMonth exactly the preceding one, so that prevMonth right
\* after nextMonth shows the month it started from.
Cex_C25 ==
    /\ last.op = "nextMonth" =>
            Shown(currentDate) = Following(Shown(last.before))
    /\ last.op = "prevMonth" =>
            Shown(currentDate) = Preceding(Shown(last.before))
    /\ (last.op = "prevMonth" /\ last.after = "nextMonth") =>
            Shown(currentDate) = Shown(last.start)

----------------------------------------------------------------------------
(* C28: the ends of the progress scale *)

\* The task count and the Done count of the project getProgress was called
\* on.
CalledOn == last.before[1].tasks

\* C28 as stated: for a project with n >= 1 tasks of which d are Done,
\* getProgress returns 100 exactly when d = n and 0 exactly when d = 0.
Cex_C28 ==
    (last.op = "getProgress" /\ Len(CalledOn) >= 1) =>
        /\ last.ret = 100 <=> DoneCount(CalledOn) = Len(CalledOn)
        /\ last.ret = 0 <=> DoneCount(CalledOn) = 0

\* C28, amended: getProgress returns 100 exactly when d = n for the task
\* counts up to 199, and 0 exactly when d = 0 for the task counts up to 200;
\* 199 Done of 200 show as 100 and 1 Done of 201 as 0.
Thm_C28 ==
    (last.op = "getProgress" /\ Len(CalledOn) >= 1) =>
        /\ Len(CalledOn) <= 199 =>
                (last.ret = 100 <=> DoneCount(CalledOn) = Len(CalledOn))
        /\ Len(CalledOn) <= 200 =>
                (last.ret = 0 <=> DoneCount(CalledOn) = 0)
        /\ (Len(CalledOn) = 200 /\ DoneCount(CalledOn) = 199) =>
                last.ret = 100
        /\ (Len(CalledOn) = 201 /\ DoneCount(CalledOn) = 1) => last.ret = 0

\* getProgress on 199 tasks of which 198 are Done gave 99.
Wit_C28 ==
    /\ last.op = "getProgress"
    /\ Len(CalledOn) = 199
    /\ DoneCount(CalledOn) = 198
    /\ last.ret = 99

====
